---- MODULE Spec2Model ----
(***************************************************************************)
(* Model of the two command-line pipelines of the repository:              *)
(*   scripts/build_lora_dataset.py   (build_dataset, run_ffmpeg)           *)
(*   scripts/download_channel_mp3.py (download_channel, main)              *)
(* File names and file contents are sequences of one-character strings so  *)
(* that glob matching, Path.stem, str.strip and sorted() are computed.     *)
(***************************************************************************)
EXTENDS Integers, Sequences, FiniteSets, TLC

VARIABLES
    audio_dir,       \* set of file names present in audio_dir
    lyrics_dir,      \* function: file name in lyrics_dir -> file contents
    audio_ext,       \* the audio_ext argument
    tags,            \* the tags argument
    recaption,       \* the recaption argument (str | None)
    out_exists,      \* output_dir exists on disk
    conv_exists,     \* output_dir/converted_audio exists on disk
    converted,       \* set of file names present in output_dir/converted_audio
    dataset,         \* what save_to_disk has left in output_dir
    pc,              \* position of build_dataset
    queue,           \* the part of sorted(glob) the for loop has not visited yet
    records,         \* the records list
    sources,         \* history: the audio_path each appended record came from
    ffmpeg_calls,    \* history: audio files run_ffmpeg was called for in this run
    ffmpeg_ok,       \* history: ... and returned normally
    ffmpeg_failed,   \* history: ... and raised RuntimeError
    saves,           \* history: number of save_to_disk calls in this run
    reported,        \* the count printed by the final print
    run,             \* number of the current run of build_dataset
    prev,            \* history: the records list at the end of the previous run
    out_at_start,    \* history: out_exists when this run started
    dataset_at_start,\* history: dataset when this run started
    converted_at_start, \* history: converted when this run started
    prev_failed,     \* history: ffmpeg_failed at the end of the previous run
    fpc,             \* position of download_channel_mp3.main
    f_out_exists,    \* the fetcher's output_dir exists
    f_calls,         \* number of subprocess.run calls made by download_channel
    f_dir_at_call,   \* history: f_out_exists when the downloader was launched
    returncode,      \* result.returncode of the downloader
    exit_status      \* exit status of the fetcher process

bvars == <<audio_dir, lyrics_dir, audio_ext, tags, recaption, out_exists,
           conv_exists, converted, dataset, pc, queue, records, sources,
           ffmpeg_calls, ffmpeg_ok, ffmpeg_failed, saves, reported, run, prev,
           out_at_start, dataset_at_start, converted_at_start, prev_failed>>

fvars == <<fpc, f_out_exists, f_calls, f_dir_at_call, returncode, exit_status>>

vars == <<bvars, fvars>>

----------------------------------------------------------------------------
(* Bounds *)

MaxFiles == 2

MaxRuns == 2

MaxSignal == 2

----------------------------------------------------------------------------
(* Strings *)

CodePoint(c) ==
    CASE c = " " -> 32
      [] c = "-" -> 45
      [] c = "." -> 46
      [] c = "a" -> 97
      [] c = "m" -> 109
      [] c = "t" -> 116
      [] c = "v" -> 118
      [] c = "w" -> 119
      [] c = "x" -> 120

IsSpace(c) == c = " "

RECURSIVE StrLess(_, _)
StrLess(s, t) ==
    IF t = <<>> THEN FALSE
    ELSE IF s = <<>> THEN TRUE
    ELSE IF CodePoint(Head(s)) < CodePoint(Head(t)) THEN TRUE
    ELSE IF CodePoint(Head(s)) > CodePoint(Head(t)) THEN FALSE
    ELSE StrLess(Tail(s), Tail(t))

EndsWith(s, suffix) ==
    /\ Len(suffix) <= Len(s)
    /\ SubSeq(s, Len(s) - Len(suffix) + 1, Len(s)) = suffix

RECURSIVE lstrip(_)
lstrip(s) ==
    IF s # <<>> /\ IsSpace(Head(s)) THEN lstrip(Tail(s)) ELSE s

RECURSIVE rstrip(_)
rstrip(s) ==
    IF s # <<>> /\ IsSpace(s[Len(s)]) THEN rstrip(SubSeq(s, 1, Len(s) - 1)) ELSE s

strip(s) == rstrip(lstrip(s))

(* str.rfind("."), as a 1-based position, 0 when there is no dot *)
RECURSIVE rfind_dot(_)
rfind_dot(s) ==
    IF s = <<>> THEN 0
    ELSE IF s[Len(s)] = "." THEN Len(s)
    ELSE rfind_dot(SubSeq(s, 1, Len(s) - 1))

(* PurePath.stem: the name without its last suffix; a leading or a         *)
(* trailing dot does not start a suffix                                    *)
stem(name) ==
    LET i == rfind_dot(name)
    IN  IF 1 < i /\ i < Len(name) THEN SubSeq(name, 1, i - 1) ELSE name

TxtName(base) == base \o <<".", "t", "x", "t">>

WavName(base) == base \o <<".", "w", "a", "v">>

----------------------------------------------------------------------------
(* Inputs *)

AudioNames ==
    { <<"a", ".", "m">>,
      <<"a", "-", ".", "m">>,
      <<"a", ".", "w">>,
      <<".", "m">>,
      <<".", "m", ".", "m">> }

AudioExts == { <<".", "m">>, <<>> }

LyricsTexts == { <<>>, <<" ">>, <<" ", "x">> }

TagLists == { <<>>, <<"pop">> }

Recaptions ==
    { [isNone |-> TRUE,  value |-> <<>>],
      [isNone |-> FALSE, value |-> <<>>],
      [isNone |-> FALSE, value |-> <<"x">>] }

LyricsNames == { TxtName(stem(n)) : n \in AudioNames }

NoDataset == [present |-> FALSE, rows |-> <<>>]

----------------------------------------------------------------------------
(* build_lora_dataset.py *)

(* audio_dir.glob(f"*{audio_ext}") *)
glob(dir, ext) == { n \in dir : EndsWith(n, ext) }

(* the orders in which the file system may list a set of entries *)
Listings(S) ==
    { l \in [1..Cardinality(S) -> S] :
        \A i, j \in 1..Cardinality(S) : i # j => l[i] # l[j] }

RECURSIVE insert(_, _)
insert(x, s) ==
    IF s = <<>> THEN <<x>>
    ELSE IF StrLess(x, Head(s)) THEN <<x>> \o s
    ELSE <<Head(s)>> \o insert(x, Tail(s))

RECURSIVE sorted_rec(_)
sorted_rec(l) ==
    IF l = <<>> THEN <<>> ELSE insert(Head(l), sorted_rec(Tail(l)))

sorted_unsorted(l) == l

(* sorted(...) of paths of one directory: ascending by file name *)
sorted(l) == sorted_rec(l)

lyrics_exists_always(base) == TRUE

(* lyrics_path.exists() *)
lyrics_exists(base) == TxtName(base) \in DOMAIN lyrics_dir

target_exists_never(base) == FALSE

(* target_audio.exists() *)
target_exists(base) == WavName(base) \in converted

norm_lyrics_unstripped(base) == lyrics_dir[TxtName(base)]

(* f.read().strip() *)
norm_lyrics(base) == strip(lyrics_dir[TxtName(base)])

(* truth value of the recaption argument *)
Truthy(r) == ~r.isNone /\ r.value # <<>>

MakeRecord(base) ==
    IF Truthy(recaption)
    THEN [keys |-> base,
          filename |-> <<"converted_audio", WavName(base)>>,
          tags |-> tags,
          norm_lyrics |-> norm_lyrics(base),
          recaption |-> [style |-> recaption.value]]
    ELSE [keys |-> base,
          filename |-> <<"converted_audio", WavName(base)>>,
          tags |-> tags,
          norm_lyrics |-> norm_lyrics(base)]

inputs == <<audio_dir, lyrics_dir, audio_ext, tags, recaption>>

history ==
    <<run, prev, out_at_start, dataset_at_start, converted_at_start, prev_failed>>

ffmpeg_log == <<ffmpeg_calls, ffmpeg_ok, ffmpeg_failed>>

BuilderInit ==
    /\ audio_dir \in { d \in SUBSET AudioNames : Cardinality(d) <= MaxFiles }
    /\ lyrics_dir \in UNION { [D -> LyricsTexts] : D \in SUBSET LyricsNames }
    /\ audio_ext \in AudioExts
    /\ tags \in TagLists
    /\ recaption \in Recaptions
    /\ out_exists = FALSE
    /\ conv_exists = FALSE
    /\ converted = {}
    /\ dataset = NoDataset
    /\ pc = "start"
    /\ queue = <<>>
    /\ records = <<>>
    /\ sources = <<>>
    /\ ffmpeg_calls = {}
    /\ ffmpeg_ok = {}
    /\ ffmpeg_failed = {}
    /\ saves = 0
    /\ reported = 0
    /\ run = 1
    /\ prev = <<>>
    /\ out_at_start = FALSE
    /\ dataset_at_start = NoDataset
    /\ converted_at_start = {}
    /\ prev_failed = {}

FetcherIdle ==
    /\ fpc = "idle"
    /\ f_out_exists = FALSE
    /\ f_calls = 0
    /\ f_dir_at_call = FALSE
    /\ returncode = 0
    /\ exit_status = 0

(* records = []; for audio_path in sorted(audio_dir.glob(...)) *)
Scan ==
    /\ pc = "start"
    /\ \E listing \in Listings(glob(audio_dir, audio_ext)) :
          queue' = sorted(listing)
    /\ records' = <<>>
    /\ sources' = <<>>
    /\ pc' = "loop"
    /\ UNCHANGED <<inputs, out_exists, conv_exists, converted, dataset,
                   ffmpeg_log, saves, reported, history, fvars>>

(* if not lyrics_path.exists(): print [skip]; continue *)
SkipMissingLyrics ==
    /\ pc = "loop"
    /\ queue # <<>>
    /\ ~lyrics_exists(stem(Head(queue)))
    /\ queue' = Tail(queue)
    /\ UNCHANGED <<inputs, out_exists, conv_exists, converted, dataset, pc,
                   records, sources, ffmpeg_log, saves, reported, history, fvars>>

(* if not target_audio.exists() is false: the conversion is skipped *)
TargetExists ==
    /\ pc = "loop"
    /\ queue # <<>>
    /\ lyrics_exists(stem(Head(queue)))
    /\ target_exists(stem(Head(queue)))
    /\ pc' = "read"
    /\ UNCHANGED <<inputs, out_exists, conv_exists, converted, dataset, queue,
                   records, sources, ffmpeg_log, saves, reported, history, fvars>>

(* run_ffmpeg: mkdir(parents=True) of converted_audio, ffmpeg exits 0 and  *)
(* has written the target                                                  *)
RunFfmpegOk ==
    /\ pc = "loop"
    /\ queue # <<>>
    /\ lyrics_exists(stem(Head(queue)))
    /\ ~target_exists(stem(Head(queue)))
    /\ out_exists' = TRUE
    /\ conv_exists' = TRUE
    /\ converted' = converted \cup {WavName(stem(Head(queue)))}
    /\ ffmpeg_calls' = ffmpeg_calls \cup {Head(queue)}
    /\ ffmpeg_ok' = ffmpeg_ok \cup {Head(queue)}
    /\ pc' = "read"
    /\ UNCHANGED <<inputs, dataset, queue, records, sources, ffmpeg_failed,
                   saves, reported, history, fvars>>

(* run_ffmpeg: mkdir(parents=True) of converted_audio, ffmpeg exits        *)
(* non-zero, RuntimeError; build_dataset catches it, prints [error] and    *)
(* continues with the next file                                            *)
RunFfmpegFail ==
    /\ pc = "loop"
    /\ queue # <<>>
    /\ lyrics_exists(stem(Head(queue)))
    /\ ~target_exists(stem(Head(queue)))
    /\ out_exists' = TRUE
    /\ conv_exists' = TRUE
    /\ ffmpeg_calls' = ffmpeg_calls \cup {Head(queue)}
    /\ ffmpeg_failed' = ffmpeg_failed \cup {Head(queue)}
    /\ queue' = Tail(queue)
    /\ UNCHANGED <<inputs, converted, dataset, pc, records, sources,
                   ffmpeg_ok, saves, reported, history, fvars>>

(* if not norm_lyrics: print [skip]; continue *)
SkipEmptyLyrics ==
    /\ pc = "read"
    /\ norm_lyrics(stem(Head(queue))) = <<>>
    /\ queue' = Tail(queue)
    /\ pc' = "loop"
    /\ UNCHANGED <<inputs, out_exists, conv_exists, converted, dataset,
                   records, sources, ffmpeg_log, saves, reported, history, fvars>>

(* records.append(record) *)
AppendRecord ==
    /\ pc = "read"
    /\ norm_lyrics(stem(Head(queue))) # <<>>
    /\ records' = Append(records, MakeRecord(stem(Head(queue))))
    /\ sources' = Append(sources, Head(queue))
    /\ queue' = Tail(queue)
    /\ pc' = "loop"
    /\ UNCHANGED <<inputs, out_exists, conv_exists, converted, dataset,
                   ffmpeg_log, saves, reported, history, fvars>>

RaiseNoPairs_saves ==
    /\ pc = "loop"
    /\ queue = <<>>
    /\ records = <<>>
    /\ out_exists' = TRUE
    /\ dataset' = [present |-> TRUE, rows |-> records]
    /\ saves' = saves + 1
    /\ pc' = "raised"
    /\ UNCHANGED <<inputs, conv_exists, converted, queue, records, sources,
                   ffmpeg_log, reported, history, fvars>>

(* if not records: raise RuntimeError("No valid audio/lyrics pairs found.") *)
RaiseNoPairs ==
    /\ pc = "loop"
    /\ queue = <<>>
    /\ records = <<>>
    /\ pc' = "raised"
    /\ UNCHANGED <<inputs, out_exists, conv_exists, converted, dataset, queue,
                   records, sources, ffmpeg_log, saves, reported, history, fvars>>

SaveDataset_in_loop ==
    /\ pc = "loop"
    /\ records # <<>>
    /\ (dataset.rows # records \/ queue = <<>>)
    /\ out_exists' = TRUE
    /\ dataset' = [present |-> TRUE, rows |-> records]
    /\ saves' = saves + 1
    /\ reported' = Len(records)
    /\ pc' = IF queue = <<>> THEN "done" ELSE "loop"
    /\ UNCHANGED <<inputs, conv_exists, converted, queue, records, sources,
                   ffmpeg_log, history, fvars>>

(* Dataset.from_list(records); output_dir.mkdir(...); ds.save_to_disk(...); *)
(* print(f"Saved dataset with {len(records)} items ...")                    *)
SaveDataset ==
    /\ pc = "loop"
    /\ queue = <<>>
    /\ records # <<>>
    /\ out_exists' = TRUE
    /\ dataset' = [present |-> TRUE, rows |-> records]
    /\ saves' = saves + 1
    /\ reported' = Len(records)
    /\ pc' = "done"
    /\ UNCHANGED <<inputs, conv_exists, converted, queue, records, sources,
                   ffmpeg_log, history, fvars>>

(* the script is run again on the same directories with the same arguments *)
RunAgain ==
    /\ pc \in {"done", "raised"}
    /\ run < MaxRuns
    /\ run' = run + 1
    /\ prev' = records
    /\ prev_failed' = ffmpeg_failed
    /\ out_at_start' = out_exists
    /\ dataset_at_start' = dataset
    /\ converted_at_start' = converted
    /\ pc' = "start"
    /\ queue' = <<>>
    /\ records' = <<>>
    /\ sources' = <<>>
    /\ ffmpeg_calls' = {}
    /\ ffmpeg_ok' = {}
    /\ ffmpeg_failed' = {}
    /\ saves' = 0
    /\ reported' = 0
    /\ UNCHANGED <<inputs, out_exists, conv_exists, converted, dataset, fvars>>

Init == BuilderInit /\ FetcherIdle

Next ==
    \/ Scan
    \/ SkipMissingLyrics
    \/ TargetExists
    \/ RunFfmpegOk
    \/ RunFfmpegFail
    \/ SkipEmptyLyrics
    \/ AppendRecord
    \/ RaiseNoPairs
    \/ SaveDataset
    \/ RunAgain

Spec == Init /\ [][Next]_vars

----------------------------------------------------------------------------
(* download_channel_mp3.py *)

(* result.returncode: the downloader's exit status, or -N when signal N    *)
(* killed it                                                               *)
ReturnCodes == (0 - MaxSignal)..255

ExitStatus_one(code) == 1

(* the status the process ends with after raise SystemExit(code) *)
ExitStatus(code) == code % 256

BuilderIdle ==
    /\ audio_dir = {}
    /\ lyrics_dir = <<>>
    /\ audio_ext = <<>>
    /\ tags = <<>>
    /\ recaption = [isNone |-> TRUE, value |-> <<>>]
    /\ out_exists = FALSE
    /\ conv_exists = FALSE
    /\ converted = {}
    /\ dataset = NoDataset
    /\ pc = "idle"
    /\ queue = <<>>
    /\ records = <<>>
    /\ sources = <<>>
    /\ ffmpeg_calls = {}
    /\ ffmpeg_ok = {}
    /\ ffmpeg_failed = {}
    /\ saves = 0
    /\ reported = 0
    /\ run = 1
    /\ prev = <<>>
    /\ out_at_start = FALSE
    /\ dataset_at_start = NoDataset
    /\ converted_at_start = {}
    /\ prev_failed = {}

FetcherInit ==
    /\ fpc = "start"
    /\ f_out_exists \in BOOLEAN
    /\ f_calls = 0
    /\ f_dir_at_call = FALSE
    /\ returncode = 0
    /\ exit_status = 0

(* ensure_output_dir(output_dir) *)
EnsureOutputDir ==
    /\ fpc = "start"
    /\ f_out_exists' = TRUE
    /\ fpc' = "run"
    /\ UNCHANGED <<f_calls, f_dir_at_call, returncode, exit_status, bvars>>

(* result = subprocess.run(cmd) *)
RunDownloader ==
    /\ fpc = "run"
    /\ \E rc \in ReturnCodes : returncode' = rc
    /\ f_calls' = f_calls + 1
    /\ f_dir_at_call' = f_out_exists
    /\ fpc' = "check"
    /\ UNCHANGED <<f_out_exists, exit_status, bvars>>

(* if result.returncode != 0: raise SystemExit(result.returncode) *)
RaiseSystemExit ==
    /\ fpc = "check"
    /\ returncode # 0
    /\ exit_status' = ExitStatus(returncode)
    /\ fpc' = "exited"
    /\ UNCHANGED <<f_out_exists, f_calls, f_dir_at_call, returncode, bvars>>

(* download_channel returns, main returns, the interpreter exits with 0 *)
ReturnFromMain ==
    /\ fpc = "check"
    /\ returncode = 0
    /\ exit_status' = 0
    /\ fpc' = "exited"
    /\ UNCHANGED <<f_out_exists, f_calls, f_dir_at_call, returncode, bvars>>

FetchInit == BuilderIdle /\ FetcherInit

FetchNext ==
    \/ EnsureOutputDir
    \/ RunDownloader
    \/ RaiseSystemExit
    \/ ReturnFromMain

SpecFetch == FetchInit /\ [][FetchNext]_vars

----------------------------------------------------------------------------
(* Properties of build_dataset *)

Matching == glob(audio_dir, audio_ext)

Finished == pc \in {"done", "raised"}

HasLyrics(f) == TxtName(stem(f)) \in DOMAIN lyrics_dir

NonEmptyLyrics(f) ==
    /\ HasLyrics(f)
    /\ strip(lyrics_dir[TxtName(stem(f))]) # <<>>

RecordsOf(f) == { i \in DOMAIN sources : sources[i] = f }

RECURSIVE IsSubseq(_, _)
IsSubseq(s, t) ==
    IF s = <<>> THEN TRUE
    ELSE IF t = <<>> THEN FALSE
    ELSE IF Head(s) = Head(t) THEN IsSubseq(Tail(s), Tail(t))
    ELSE IsSubseq(s, Tail(t))

(* no matching audio file yields a valid pair in the finished run *)
NoValidPair ==
    \A f \in Matching :
        \/ ~HasLyrics(f)
        \/ ~NonEmptyLyrics(f)
        \/ f \in ffmpeg_failed

(* C1, as stated: a run in which no audio file yields a valid pair ends by *)
(* raising, and the output directory has been neither created nor          *)
(* overwritten, also when the transcoder was attempted.                    *)
C1_Original ==
    (Finished /\ NoValidPair) =>
        /\ pc = "raised"
        /\ out_exists = out_at_start
        /\ dataset = dataset_at_start

(* C1, amended: a run in which no audio file yields a valid pair ends by   *)
(* raising; while the records list is empty the dataset is never saved and *)
(* an existing dataset is left as it was; the output directory has been    *)
(* created in that run exactly when run_ffmpeg was called for some file.   *)
C1_NoPairsNothingSaved ==
    /\ (Finished /\ NoValidPair) => pc = "raised"
    /\ (pc \in {"loop", "read", "raised"} /\ records = <<>>) =>
          /\ saves = 0
          /\ dataset = dataset_at_start
          /\ out_exists <=> (out_at_start \/ ffmpeg_calls # {})

C1_Witness ==
    /\ pc = "raised"
    /\ NoValidPair
    /\ ffmpeg_failed # {}
    /\ ffmpeg_ok # {}
    /\ ~out_at_start

(* C2: every persisted record with key B has an audio file with base name  *)
(* B and the scanned extension, a converted file B.wav that exists because *)
(* it was already present or was converted successfully in this run, and a *)
(* transcript B.txt that is non-empty after stripping.                     *)
C2_PersistedRecordsValid ==
    pc = "done" =>
        \A i \in DOMAIN dataset.rows :
            LET B == dataset.rows[i].keys
            IN  /\ \E f \in audio_dir : EndsWith(f, audio_ext) /\ stem(f) = B
                /\ WavName(B) \in converted
                /\ \/ WavName(B) \in converted_at_start
                   \/ \E f \in ffmpeg_ok : stem(f) = B
                /\ TxtName(B) \in DOMAIN lyrics_dir
                /\ strip(lyrics_dir[TxtName(B)]) # <<>>

C2_Witness ==
    /\ pc = "done"
    /\ dataset.rows # <<>>
    /\ \E f \in ffmpeg_ok : HasLyrics(f) /\ ~NonEmptyLyrics(f)

(* C3, as stated: in a second run on unchanged inputs the transcoder is    *)
(* not invoked for a base name whose converted file exists, and the record *)
(* set is identical to the first run's.                                    *)
C3_Original ==
    (run >= 2 /\ Finished) =>
        /\ \A f \in ffmpeg_calls : WavName(stem(f)) \notin converted_at_start
        /\ records = prev

(* C3, amended: in a second run on unchanged inputs the transcoder is not  *)
(* invoked for a base name whose converted file exists; the second run's   *)
(* records contain the first run's records in the same order, and are      *)
(* identical to them when no transcoder call failed in the first run.      *)
C3_RerunKeepsRecords ==
    /\ run >= 2 =>
          \A f \in ffmpeg_calls : WavName(stem(f)) \notin converted_at_start
    /\ (run >= 2 /\ Finished) =>
          /\ IsSubseq(prev, records)
          /\ prev_failed = {} => records = prev

C3_Witness ==
    /\ run = 2
    /\ pc = "done"
    /\ Len(prev) >= 2
    /\ records = prev
    /\ ffmpeg_calls = {}

(* C4: an audio file without a transcript file is skipped: the transcoder  *)
(* is never invoked for it, no converted file is created for it and no     *)
(* record with its key is collected or persisted.                          *)
C4_MissingLyricsSkipped ==
    \A f \in Matching :
        ~(TxtName(stem(f)) \in DOMAIN lyrics_dir) =>
            /\ f \notin ffmpeg_calls
            /\ WavName(stem(f)) \notin converted
            /\ \A i \in DOMAIN records : records[i].keys # stem(f)
            /\ \A i \in DOMAIN dataset.rows : dataset.rows[i].keys # stem(f)

C4_Witness ==
    /\ pc = "done"
    /\ ffmpeg_ok # {}
    /\ \E f \in Matching : ~HasLyrics(f)

AllNonEmpty == \A f \in Matching : NonEmptyLyrics(f)

KeysOf(rows) == { rows[i].keys : i \in DOMAIN rows }

(* C5: with non-empty transcripts for all audio files, if the transcoder   *)
(* fails for the files F and succeeds for the non-empty rest S, the scan   *)
(* goes on past each failure, the run completes and the persisted dataset  *)
(* has a record for the key of every file of S and of no file of F.        *)
C5_FailureNonFatal ==
    /\ pc = "raised" => queue = <<>>
    /\ (Finished /\ AllNonEmpty /\ ffmpeg_ok # {}
          /\ Matching = ffmpeg_ok \cup ffmpeg_failed) =>
          /\ pc = "done"
          /\ dataset.rows = records
          /\ \A f \in ffmpeg_ok : stem(f) \in KeysOf(dataset.rows)
          /\ \A f \in ffmpeg_failed : stem(f) \notin KeysOf(dataset.rows)

C8_UniqueKeys ==
    dataset.present =>
        \A i, j \in DOMAIN dataset.rows :
            i # j => dataset.rows[i].keys # dataset.rows[j].keys

Accounted(f) ==
    \/ ~HasLyrics(f)
    \/ ~NonEmptyLyrics(f)
    \/ f \in ffmpeg_failed
    \/ RecordsOf(f) # {}

(* C9: the dataset is written at most once in a run, never while the scan  *)
(* is in progress, only after every matching audio file has been skipped   *)
(* or turned into a record; the write carries the whole records list and   *)
(* the reported count is its length.                                       *)
C9_SingleWriteAfterScan ==
    /\ saves <= 1
    /\ pc \in {"start", "loop", "read", "raised"} =>
          /\ saves = 0
          /\ dataset = dataset_at_start
    /\ saves = 1 =>
          /\ pc = "done"
          /\ queue = <<>>
          /\ \A f \in Matching : Accounted(f)
          /\ dataset = [present |-> TRUE, rows |-> records]
          /\ reported = Len(dataset.rows)

C9_Witness ==
    /\ pc = "done"
    /\ saves = 1
    /\ run = 2
    /\ dataset # dataset_at_start
    /\ Cardinality(Matching) >= 2

(* the audio files that form a valid pair in this run: the transcript is   *)
(* non-empty, and the converted file was there before the run or was       *)
(* produced by a successful transcoder call by the time the file was       *)
(* visited                                                                 *)
ValidPairs ==
    { f \in Matching :
        /\ NonEmptyLyrics(f)
        /\ \/ WavName(stem(f)) \in converted_at_start
           \/ \E g \in ffmpeg_ok : stem(g) = stem(f) /\ ~StrLess(f, g) }

(* C10: every valid pair with base name B has exactly one record in the    *)
(* persisted dataset, with key B, audio path converted_audio/B.wav, the    *)
(* caller's tags, the stripped transcript and a style annotation exactly   *)
(* when the caller gave a non-empty style; the persisted and the reported  *)
(* count are the number of valid pairs.                                    *)
C10_NoValidPairDropped ==
    pc = "done" =>
        /\ Len(dataset.rows) = Cardinality(ValidPairs)
        /\ reported = Cardinality(ValidPairs)
        /\ \A f \in ValidPairs :
              /\ Cardinality({ i \in DOMAIN dataset.rows :
                                 dataset.rows[i].keys = stem(f) }) = 1
              /\ \A i \in DOMAIN dataset.rows :
                    dataset.rows[i].keys = stem(f) =>
                    LET r == dataset.rows[i]
                    IN  /\ r.filename = <<"converted_audio", stem(f) \o <<".", "w", "a", "v">>>>
                        /\ r.tags = tags
                        /\ r.norm_lyrics = strip(lyrics_dir[TxtName(stem(f))])
                        /\ ("recaption" \in DOMAIN r) <=>
                              (~recaption.isNone /\ recaption.value # <<>>)
                        /\ ("recaption" \in DOMAIN r) =>
                              r.recaption = [style |-> recaption.value]

----------------------------------------------------------------------------
(* The two statements above about records per key hold whenever no two     *)
(* matching audio files share a stem.                                      *)

UniqueStems == \A f, g \in Matching : stem(f) = stem(g) => f = g

FailureNonFatalUnderUniqueStems == UniqueStems => C5_FailureNonFatal

NoValidPairDroppedUnderUniqueStems == UniqueStems => C10_NoValidPairDropped

----------------------------------------------------------------------------
(* Properties of download_channel *)

(* C7: download_channel creates the output directory, then runs the        *)
(* downloader exactly once; a non-zero exit status of the downloader       *)
(* becomes the exit status of the fetcher, and status 0 ends it with 0.    *)
C7_ExitStatusPropagated ==
    /\ f_calls <= 1
    /\ fpc \in {"start", "run"} => f_calls = 0
    /\ fpc \in {"check", "exited"} => (f_calls = 1 /\ f_dir_at_call)
    /\ fpc = "exited" =>
          /\ returncode \in 1..255 => exit_status = returncode
          /\ returncode = 0 => exit_status = 0

C7_Witness ==
    /\ fpc = "exited"
    /\ returncode = 255
    /\ exit_status = 255
    /\ f_calls = 1

====
